---------------------------- MODULE Spec2Model ----------------------------
(***************************************************************************)
(* A state-machine model of the kernel supervisor in                       *)
(* src/question/kernel/hilevel.c: the process table and scheduler, the     *)
(* reset / IRQ / SVC handlers, the open-file table and the pipes.          *)
(*                                                                         *)
(* One action models one trap: the user loads the argument registers and   *)
(* the handler runs to completion (the kernel is not re-entrant).          *)
(***************************************************************************)
EXTENDS Integers, Sequences, FiniteSets, TLC

(***************************************************************************)
(* Capacities and platform symbols.                                        *)
(***************************************************************************)
MAX_PROCS == 3
MAX_FDS == 5
PIPE_SIZE == 2
NGPR == 3

StackSize == 8192
TosP == 65536
TosConsole == 81920
MainConsole == 4096
UsrMode == 80

\* INT_MAX and INT_MIN of the 32-bit int
IntMax == 2147483647
IntMin == (-2147483647) - 1

(***************************************************************************)
(* Bounds of the model.                                                    *)
(***************************************************************************)
MaxAddrs == 2
MaxCalls == 6
MaxDeep == 7

NULL == 0
NoProc == -1

Procs == 0 .. (MAX_PROCS - 1)
Fds == 0 .. (MAX_FDS - 1)
Addrs == 1 .. MaxAddrs
Bytes == {65, 66}

VARIABLES
    currentProcesses,   \* int currentProcesses
    time,               \* uint32_t time
    procTab,            \* pcb_t procTab[MAX_PROCS]
    openFileTab,        \* fd_t openFileTab[MAX_FDS]
    executing,          \* pcb_t *executing, as an index, NoProc for NULL
    ctx,                \* the saved user context the trampoline hands over
    heap,               \* per address: -1 never allocated, 0 live,
                        \* n > 0 freed n times since its last malloc
    pipes,              \* the pipe_t stored at each address
    fault,              \* an out-of-bounds store has happened
    written,            \* history: bytes accepted by write, per address
    delivered,          \* history: bytes delivered by read, per address
    calls               \* history: the number of traps handled so far

vars == <<currentProcesses, time, procTab, openFileTab, executing, ctx,
          heap, pipes, fault, written, delivered, calls>>

(***************************************************************************)
(* Zero-filled objects (static storage and memset).                        *)
(***************************************************************************)
ZeroCtx ==
    [gpr |-> [r \in 0 .. (NGPR - 1) |-> 0], sp |-> 0, lr |-> 0, pc |-> 0, cpsr |-> 0]

ZeroPcb ==
    [pid |-> 0, status |-> "INVALID", tos |-> 0, ctx |-> ZeroCtx,
     lastExec |-> 0, niceness |-> 0, fdTab |-> [j \in Fds |-> 0]]

ZeroFile == [file |-> NULL, flag |-> "UNSET", refCount |-> 0]

ZeroPipe ==
    [front |-> 0, rear |-> 0, size |-> 0, full |-> FALSE,
     buffer |-> [k \in 0 .. (PIPE_SIZE - 1) |-> 0]]

Init ==
    /\ currentProcesses = 0
    /\ time = 0
    /\ procTab = [i \in Procs |-> ZeroPcb]
    /\ openFileTab = [i \in Fds |-> ZeroFile]
    /\ executing = NoProc
    /\ ctx = ZeroCtx
    /\ heap = [a \in Addrs |-> -1]
    /\ pipes = [a \in Addrs |-> ZeroPipe]
    /\ fault = FALSE
    /\ written = [a \in Addrs |-> <<>>]
    /\ delivered = [a \in Addrs |-> <<>>]
    /\ calls = 0


(***************************************************************************)
(* printPID: the characters sent to the UART for a pid in 0 .. 99.         *)
(***************************************************************************)
Digit(d) == <<"0", "1", "2", "3", "4", "5", "6", "7", "8", "9">>[d + 1]

printPID(pid) ==
    LET units == pid % 10
    IN  (IF pid >= 10 THEN <<Digit((pid - units) \div 10)>> ELSE <<>>) \o <<Digit(units)>>

(***************************************************************************)
(* dispatch: save the context of prev (unless NULL), restore the context   *)
(* of next, point executing at next.  The result is the new process table, *)
(* the new context record and the new executing pointer.                   *)
(***************************************************************************)
dispatch(pt, c, prev, next) ==
    LET saved == IF prev # NoProc THEN [pt EXCEPT ![prev].ctx = c] ELSE pt
    IN  [pt |-> saved, ctx |-> saved[next].ctx, executing |-> next]

\* the characters dispatch sends to the UART
dispatchOut(pt, prev, next) ==
    <<"[">> \o (IF prev # NoProc THEN printPID(pt[prev].pid) ELSE <<"?">>)
            \o <<"-", ">">>
            \o (IF next # NoProc THEN printPID(pt[next].pid) ELSE <<"?">>)
            \o <<"]">>

(***************************************************************************)
(* 32-bit unsigned values are written as their two's-complement            *)
(* representatives: a representative u < 0 stands for the unsigned value   *)
(* u + 2^32, which is above INT_MAX.                                       *)
(*                                                                         *)
(* The aging score of schedule: (time - lastExec) - niceness is computed   *)
(* in unsigned 32-bit arithmetic (time is uint32_t) and then widened to a  *)
(* double.                                                                 *)
(***************************************************************************)
ipriority(pt, t, i) == t - pt[i].lastExec - pt[i].niceness

\* ipriority >= highestPriority: the unsigned score u against the int h
ScoreGeq(u, h) == u < 0 \/ u >= h

(***************************************************************************)
(* highestPriority = ipriority stores a double into an int: a value above  *)
(* INT_MAX is out of range, and the build decides what is stored.          *)
(***************************************************************************)
DoubleToInt(u) == IF u >= 0 THEN {u} ELSE {IntMax, IntMin}

(***************************************************************************)
(* The selection loop of schedule from index i on, with the running        *)
(* maximum hp and the running choice next: the set of indices the loop can *)
(* end with.                                                               *)
(***************************************************************************)
RECURSIVE ScanFrom(_, _, _, _, _)
ScanFrom(pt, t, i, hp, next) ==
    IF i >= MAX_PROCS THEN {next}
    ELSE IF pt[i].status = "READY" /\ ScoreGeq(ipriority(pt, t, i), hp)
         THEN UNION {ScanFrom(pt, t, i + 1, h, i) : h \in DoubleToInt(ipriority(pt, t, i))}
         ELSE ScanFrom(pt, t, i + 1, hp, next)

NextIndexes(pt, t, ex) == ScanFrom(pt, t, 0, pt[ex].niceness - 1, pt[ex].pid)

\* time++ on a uint32_t
Inc32(t) == IF t = -1 THEN 0 ELSE IF t = IntMax THEN IntMin ELSE t + 1

\* as scheduleTo, without the demotion of the previous process to READY
scheduleToKeepsPrev(pt, c, t, ex, nextIndex) ==
    LET prevIndex == pt[ex].pid
        d == dispatch(pt, c, ex, nextIndex)
        p1 == [d.pt EXCEPT ![prevIndex].lastExec = t]
        p3 == [p1 EXCEPT ![nextIndex].status = "EXECUTING"]
    IN  [pt |-> p3, ctx |-> d.ctx, executing |-> d.executing, time |-> Inc32(t)]

(***************************************************************************)
(* schedule, once the loop has chosen nextIndex.                            *)
(***************************************************************************)
scheduleTo(pt, c, t, ex, nextIndex) ==
    LET prevIndex == pt[ex].pid
        d == dispatch(pt, c, ex, nextIndex)
        p1 == [d.pt EXCEPT ![prevIndex].lastExec = t]
        p2 == IF p1[prevIndex].status = "EXECUTING"
              THEN [p1 EXCEPT ![prevIndex].status = "READY"]
              ELSE p1
        p3 == [p2 EXCEPT ![nextIndex].status = "EXECUTING"]
    IN  [pt |-> p3, ctx |-> d.ctx, executing |-> d.executing, time |-> Inc32(t)]

Booted == executing # NoProc

\* a trap is handled once the kernel runs; n bounds the number of traps
Handles(n) == Booted /\ ~fault /\ calls < n

UNCHANGED_PIPES == UNCHANGED <<pipes, written, delivered>>

(***************************************************************************)
(* hilevel_handler_rst                                                     *)
(***************************************************************************)
ResetFiles ==
    [i \in Fds |->
        IF i < 3
        THEN [openFileTab[i] EXCEPT !.refCount = 1,
                                    !.flag = IF i = 0 THEN "RDONLY" ELSE "WRONLY"]
        ELSE [openFileTab[i] EXCEPT !.refCount = 0]]

ConsolePcb ==
    [ZeroPcb EXCEPT !.pid = 0, !.status = "READY", !.tos = TosConsole,
                    !.ctx.cpsr = UsrMode, !.ctx.pc = MainConsole,
                    !.ctx.sp = TosConsole, !.lastExec = time, !.niceness = 0,
                    !.fdTab = [j \in Fds |-> -1]]

\* the table that reset hands to dispatch
ResetTable ==
    [[i \in Procs |-> [procTab[i] EXCEPT !.status = "INVALID"]] EXCEPT ![0] = ConsolePcb]

\* the characters reset sends to the UART
ResetOut == <<"R">> \o dispatchOut(ResetTable, NoProc, 0)

Reset ==
    /\ ~Booted
    /\ calls' = calls + 1
    /\ LET d == dispatch(ResetTable, ctx, NoProc, 0)
       IN  /\ procTab' = d.pt
           /\ ctx' = d.ctx
           /\ executing' = d.executing
    /\ openFileTab' = ResetFiles
    /\ currentProcesses' = currentProcesses + 1
    /\ UNCHANGED <<time, heap, fault>>
    /\ UNCHANGED_PIPES

(***************************************************************************)
(* yield (svc 0x00) and the timer interrupt: both call schedule.           *)
(***************************************************************************)
Schedule(pt, c) ==
    \E n \in NextIndexes(pt, time, executing) :
        LET s == scheduleTo(pt, c, time, executing, n)
        IN  /\ procTab' = s.pt
            /\ ctx' = s.ctx
            /\ executing' = s.executing
            /\ time' = s.time

YieldHandler ==
    /\ calls' = calls + 1
    /\ Schedule(procTab, ctx)
    /\ UNCHANGED <<currentProcesses, openFileTab, heap, fault>>
    /\ UNCHANGED_PIPES

Yield == Handles(MaxCalls) /\ YieldHandler

IrqHandler ==
    /\ calls' = calls + 1
    /\ Schedule(procTab, ctx)
    /\ UNCHANGED <<currentProcesses, openFileTab, heap, fault>>
    /\ UNCHANGED_PIPES

Irq == Handles(MaxCalls) /\ IrqHandler


(***************************************************************************)
(* The descriptor subsystem works on the triple k = [pt, oft, hp]: the     *)
(* process table, the open-file table and the allocation state of the      *)
(* heap.                                                                   *)
(***************************************************************************)
Kernel == [pt |-> procTab, oft |-> openFileTab, hp |-> heap]

\* free(p): a no-op on NULL, else one more free of the block at p
free(hp, p) == IF p = NULL THEN hp ELSE [hp EXCEPT ![p] = @ + 1]

\* the first index from i on that satisfies the test, or none
RECURSIVE FirstFreeFile(_, _)
FirstFreeFile(oft, i) ==
    IF i >= MAX_FDS THEN -1
    ELSE IF oft[i].refCount = 0 THEN i
    ELSE FirstFreeFile(oft, i + 1)

RECURSIVE FirstUnusedSlot(_, _)
FirstUnusedSlot(tab, j) ==
    IF j >= MAX_FDS THEN -1
    ELSE IF tab[j] < 0 THEN j
    ELSE FirstUnusedSlot(tab, j + 1)

(***************************************************************************)
(* open_fd(p, flag), called by the process ex.                             *)
(***************************************************************************)
open_fd(k, ex, p, flag) ==
    LET fd == FirstFreeFile(k.oft, 3)
        j == FirstUnusedSlot(k.pt[ex].fdTab, 0)
    IN  IF fd < 0 THEN [k |-> k, fd |-> -1]
        ELSE [k |-> [k EXCEPT !.oft[fd] = [file |-> p, flag |-> flag,
                                           refCount |-> k.oft[fd].refCount + 1],
                              !.pt[ex].fdTab = IF j < 0 THEN @
                                               ELSE [@ EXCEPT ![j] = fd]],
              fd |-> fd]

(***************************************************************************)
(* close_fd(fd, pid)                                                       *)
(***************************************************************************)
close_fd(k, fd, pid) ==
    IF fd >= 0 /\ fd < MAX_FDS
    THEN LET rc == k.oft[fd].refCount - 1
         IN  [k |-> [k EXCEPT !.pt[pid].fdTab =
                                   [i \in Fds |-> IF @[i] = fd THEN -1 ELSE @[i]],
                              !.oft[fd].refCount = rc,
                              !.hp = IF rc <= 0 THEN free(@, k.oft[fd].file) ELSE @],
              r |-> 0]
    ELSE [k |-> k, r |-> -1]

(***************************************************************************)
(* The close loops of exit and kill: for each slot i of the table of the   *)
(* process src, in order, close the descriptor it holds at that moment on  *)
(* behalf of pid.                                                          *)
(***************************************************************************)
RECURSIVE CloseAll(_, _, _, _)
CloseAll(k, src, pid, i) ==
    IF i >= MAX_FDS THEN k
    ELSE LET fd == k.pt[src].fdTab[i]
         IN  IF fd >= 0 THEN CloseAll(close_fd(k, fd, pid).k, src, pid, i + 1)
             ELSE CloseAll(k, src, pid, i + 1)

(***************************************************************************)
(* pipe (svc 0x08)                                                         *)
(***************************************************************************)
NewPipe(old) == [old EXCEPT !.front = 0, !.rear = -1, !.size = PIPE_SIZE, !.full = FALSE]

PipeHandler ==
    /\ calls' = calls + 1
    /\ \E p \in Addrs :
        /\ heap[p] # 0                              \* malloc returns a block not in use
        /\ LET k0 == [Kernel EXCEPT !.hp[p] = 0]
               o1 == open_fd(k0, executing, p, "RDONLY")
               o2 == open_fd(o1.k, executing, p, "WRONLY")
               pid == procTab[executing].pid
               failed == o1.fd = -1 \/ o2.fd = -1
               c1 == IF failed /\ o1.fd >= 0 THEN close_fd(o2.k, o1.fd, pid).k ELSE o2.k
               c2 == IF failed /\ o2.fd >= 0 THEN close_fd(c1, o2.fd, pid).k ELSE c1
           IN  /\ procTab' = c2.pt
               /\ openFileTab' = c2.oft
               /\ heap' = c2.hp
               /\ ctx' = [ctx EXCEPT !.gpr[0] = IF failed THEN -1 ELSE 0]
        /\ pipes' = [pipes EXCEPT ![p] = NewPipe(@)]
        /\ written' = [written EXCEPT ![p] = <<>>]
        /\ delivered' = [delivered EXCEPT ![p] = <<>>]
    /\ UNCHANGED <<currentProcesses, time, executing, fault>>

Pipe == Handles(MaxCalls) /\ PipeHandler

(***************************************************************************)
(* close (svc 0x09)                                                        *)
(***************************************************************************)
CloseArgs == {-1, 0} \cup (3 .. MAX_FDS)

CloseHandler ==
    /\ calls' = calls + 1
    /\ \E fd \in CloseArgs :
        /\ LET c == close_fd(Kernel, fd, procTab[executing].pid)
           IN  /\ procTab' = c.k.pt
               /\ openFileTab' = c.k.oft
               /\ heap' = c.k.hp
               /\ ctx' = [ctx EXCEPT !.gpr[0] = c.r]
    /\ UNCHANGED <<currentProcesses, time, executing, fault>>
    /\ UNCHANGED_PIPES

Close == Handles(MaxCalls) /\ CloseHandler

(***************************************************************************)
(* fork (svc 0x03)                                                         *)
(***************************************************************************)
\* the search for a terminated process, from index i on; iNew if none
RECURSIVE FirstTerminated(_, _, _)
FirstTerminated(pt, i, iNew) ==
    IF i >= MAX_PROCS THEN iNew
    ELSE IF pt[i].status = "TERMINATED" THEN i
    ELSE FirstTerminated(pt, i + 1, iNew)

ForkSlot == FirstTerminated(procTab, 1, currentProcesses)

\* the copy of the descriptor table, slot by slot from i on
RECURSIVE CopyFds(_, _, _, _)
CopyFds(k, ex, iNew, i) ==
    IF i >= MAX_FDS THEN k
    ELSE LET fd == k.pt[ex].fdTab[i]
             k1 == [k EXCEPT !.pt[iNew].fdTab[i] = fd]
         IN  CopyFds(IF fd >= 0 THEN [k1 EXCEPT !.oft[fd].refCount = @ + 1] ELSE k1,
                     ex, iNew, i + 1)

\* as ForkInto, replicating the context saved in the PCB of the parent
\* instead of the context of the trap
ForkIntoSavedCtx(k, c, t, ex, iNew) ==
    LET tos == TosP - (iNew - 1) * StackSize
        p1 == [k.pt EXCEPT ![iNew] = [ZeroPcb EXCEPT !.pid = iNew, !.status = "READY",
                                                     !.tos = tos, !.ctx = k.pt[ex].ctx]]
        stackHeight == p1[ex].tos - p1[ex].ctx.sp
        p2 == [p1 EXCEPT ![iNew].ctx.sp = tos - stackHeight]
        p3 == [p2 EXCEPT ![iNew].lastExec = t]
        p4 == [p3 EXCEPT ![iNew].niceness = p3[ex].niceness]
        k5 == CopyFds([k EXCEPT !.pt = p4], ex, iNew, 0)
    IN  [k |-> [k5 EXCEPT !.pt[iNew].ctx.gpr[0] = 0],
         ctx |-> [c EXCEPT !.gpr[0] = k5.pt[iNew].pid]]

\* the body of the else branch, for a destination slot inside the table
ForkInto(k, c, t, ex, iNew) ==
    LET tos == TosP - (iNew - 1) * StackSize
        p1 == [k.pt EXCEPT ![iNew] = [ZeroPcb EXCEPT !.pid = iNew, !.status = "READY",
                                                     !.tos = tos, !.ctx = c]]
        stackHeight == p1[ex].tos - p1[ex].ctx.sp
        p2 == [p1 EXCEPT ![iNew].ctx.sp = tos - stackHeight]
        p3 == [p2 EXCEPT ![iNew].lastExec = t]
        p4 == [p3 EXCEPT ![iNew].niceness = p3[ex].niceness]
        k5 == CopyFds([k EXCEPT !.pt = p4], ex, iNew, 0)
    IN  [k |-> [k5 EXCEPT !.pt[iNew].ctx.gpr[0] = 0],
         ctx |-> [c EXCEPT !.gpr[0] = k5.pt[iNew].pid]]

\* as TableFull, full only beyond the last slot
TableFullOffByOne(n) == n > MAX_PROCS

\* the test for a full process table
TableFull(n) == n >= MAX_PROCS

ForkHandler ==
    /\ calls' = calls + 1
    /\ IF TableFull(currentProcesses)
       THEN /\ ctx' = [ctx EXCEPT !.gpr[0] = -1]
            /\ UNCHANGED <<currentProcesses, procTab, openFileTab, fault>>
       ELSE /\ currentProcesses' = currentProcesses + 1
            /\ IF ForkSlot \in Procs
               THEN LET f == ForkInto(Kernel, ctx, time, executing, ForkSlot)
                    IN  /\ procTab' = f.k.pt
                        /\ openFileTab' = f.k.oft
                        /\ ctx' = f.ctx
                        /\ UNCHANGED fault
               ELSE /\ fault' = TRUE                \* memset outside procTab
                    /\ UNCHANGED <<procTab, openFileTab, ctx>>
    /\ UNCHANGED <<time, executing, heap>>
    /\ UNCHANGED_PIPES

Fork == Handles(MaxCalls) /\ ForkHandler

(***************************************************************************)
(* exit (svc 0x04)                                                         *)
(***************************************************************************)
ExitHandler ==
    /\ calls' = calls + 1
    /\ \E x \in {0} :
        LET c == ctx
            k == CloseAll(Kernel, executing, procTab[executing].pid, 0)
            pt == [k.pt EXCEPT ![executing].status = "TERMINATED"]
        IN  /\ openFileTab' = k.oft
            /\ heap' = k.hp
            /\ currentProcesses' = currentProcesses - 1
            /\ Schedule(pt, c)
    /\ UNCHANGED fault
    /\ UNCHANGED_PIPES

Exit == Handles(MaxCalls) /\ ExitHandler

(***************************************************************************)
(* exec (svc 0x05)                                                         *)
(***************************************************************************)
Exec ==
    /\ Booted /\ ~fault /\ calls < MaxCalls
    /\ calls' = calls + 1
    /\ \E entry \in {MainConsole, MainConsole + 4} :
        /\ ctx' = [ctx EXCEPT !.gpr[0] = entry, !.pc = entry,
                              !.sp = procTab[executing].tos]
    /\ UNCHANGED <<currentProcesses, time, procTab, openFileTab, executing, heap, fault>>
    /\ UNCHANGED_PIPES

(***************************************************************************)
(* kill (svc 0x06)                                                         *)
(***************************************************************************)
KillHandler(pid, x) ==
    /\ calls' = calls + 1
    /\ LET k == CloseAll(Kernel, pid, pid, 0)
       IN  /\ procTab' = [k.pt EXCEPT ![pid].status = "TERMINATED"]
           /\ openFileTab' = k.oft
           /\ heap' = k.hp
           /\ currentProcesses' = currentProcesses - 1
           /\ ctx' = [ctx EXCEPT !.gpr[0] = 0]
    /\ UNCHANGED <<time, executing, fault>>
    /\ UNCHANGED_PIPES

KillCall(pid, x) == Handles(MaxCalls) /\ KillHandler(pid, x)

Kill == \E pid \in Procs, x \in {0} : KillCall(pid, x)

(***************************************************************************)
(* nice (svc 0x07)                                                         *)
(***************************************************************************)
\* as Clamp, without the upper limit
ClampNoUpper(x) == IF x < -19 THEN -19 ELSE x

Clamp(x) == IF x < -19 THEN -19 ELSE IF x > 20 THEN 20 ELSE x

NiceArgs == {-20, -19, -1, 0, 1, 20, 21}

\* the body of the case: the process table afterwards and the value returned
nice(pt, pid, x) == [pt |-> [pt EXCEPT ![pid].niceness = Clamp(x)], r |-> Clamp(x)]

NiceHandler(pid, x) ==
    /\ calls' = calls + 1
    /\ procTab' = nice(procTab, pid, x).pt
    /\ ctx' = [ctx EXCEPT !.gpr[0] = nice(procTab, pid, x).r]
    /\ UNCHANGED <<currentProcesses, time, openFileTab, executing, heap, fault>>
    /\ UNCHANGED_PIPES

NiceCall(pid, x) == Handles(MaxCalls) /\ NiceHandler(pid, x)

Nice == \E pid \in Procs, x \in NiceArgs : NiceCall(pid, x)

(***************************************************************************)
(* write (svc 0x01) and read (svc 0x02).  The pipe branches are the two    *)
(* loops over the circular buffer; q is the pipe_t, i the loop counter.    *)
(***************************************************************************)
\* as WriteLoop, without the break on a full pipe
RECURSIVE WriteLoopNoFullBreak(_, _, _, _)
WriteLoopNoFullBreak(q, x, n, i) ==
    IF i >= n THEN [q |-> q, i |-> i]
    ELSE LET rear == (q.rear + 1) % q.size
             q1 == [q EXCEPT !.rear = rear, !.buffer[rear] = x[i + 1]]
             q2 == IF q1.front = (q1.rear + 1) % q1.size
                   THEN [q1 EXCEPT !.full = TRUE] ELSE q1
         IN  WriteLoopNoFullBreak(q2, x, n, i + 1)

RECURSIVE WriteLoop(_, _, _, _)
WriteLoop(q, x, n, i) ==
    IF i >= n \/ q.full THEN [q |-> q, i |-> i]
    ELSE LET rear == (q.rear + 1) % q.size
             q1 == [q EXCEPT !.rear = rear, !.buffer[rear] = x[i + 1]]
             q2 == IF q1.front = (q1.rear + 1) % q1.size
                   THEN [q1 EXCEPT !.full = TRUE] ELSE q1
         IN  WriteLoop(q2, x, n, i + 1)

\* as ReadLoop, without clearing full
RECURSIVE ReadLoopKeepsFull(_, _, _, _)
ReadLoopKeepsFull(q, x, n, i) ==
    IF i >= n \/ (q.front = (q.rear + 1) % q.size /\ ~q.full)
    THEN [q |-> q, i |-> i, x |-> x]
    ELSE ReadLoopKeepsFull([q EXCEPT !.front = (q.front + 1) % q.size],
                           Append(x, q.buffer[q.front]), n, i + 1)

RECURSIVE ReadLoop(_, _, _, _)
ReadLoop(q, x, n, i) ==
    IF i >= n \/ (q.front = (q.rear + 1) % q.size /\ ~q.full)
    THEN [q |-> q, i |-> i, x |-> x]
    ELSE ReadLoop([q EXCEPT !.front = (q.front + 1) % q.size, !.full = FALSE],
                  Append(x, q.buffer[q.front]), n, i + 1)

\* the lengths a caller asks for: up to one more than a pipe can hold
MaxLen == PIPE_SIZE + 1

\* the contents of a user buffer of n bytes
Buffers(n) == [1 .. n -> Bytes]

\* the pipe branch dereferences openFileTab[fd].file: a block in use
PipeAt(fd) == openFileTab[fd].file

Dereferenceable(fd) == fd \in Fds /\ PipeAt(fd) # NULL /\ heap[PipeAt(fd)] = 0

\* the switch on fd of write: the pipe afterwards and the value returned
WriteSwitch(fd, n, x) ==
    LET w == IF fd >= 3 THEN WriteLoop(pipes[PipeAt(fd)], x, n, 0)
             ELSE [q |-> ZeroPipe, i |-> 0]
    IN  [q |-> w.q,
         i |-> w.i,
         r |-> IF fd < 0 THEN -1
               ELSE IF fd = 0 THEN 0
               ELSE IF fd = 1 THEN n
               ELSE IF fd = 2 THEN -1
               ELSE w.i]

WriteCall(fd, n, x) ==
    /\ Booted /\ ~fault /\ calls < MaxCalls
    /\ calls' = calls + 1
    /\ fd >= 3 => Dereferenceable(fd)
    /\ LET w == WriteSwitch(fd, n, x)
       IN  /\ pipes' = IF fd >= 3 THEN [pipes EXCEPT ![PipeAt(fd)] = w.q] ELSE pipes
           /\ written' = IF fd >= 3
                         THEN [written EXCEPT ![PipeAt(fd)] = @ \o SubSeq(x, 1, w.i)]
                         ELSE written
           /\ ctx' = [ctx EXCEPT !.gpr[0] = w.r]
    /\ UNCHANGED <<currentProcesses, time, procTab, openFileTab, executing, heap,
                   fault, delivered>>

\* the buffer of the caller reaches the state through a pipe only (stdout
\* sends it to the UART): one buffer stands for all where it is not stored
BuffersFor(fd, n) == IF fd >= 3 THEN Buffers(n) ELSE {[k \in 1 .. n |-> 65]}

Write ==
    \E fd \in -1 .. (MAX_FDS - 1), n \in -1 .. MaxLen :
        \E x \in BuffersFor(fd, n) : WriteCall(fd, n, x)

\* the switch on fd of read: the pipe afterwards, the bytes stored in the
\* buffer of the caller and the value returned
ReadSwitch(fd, n) ==
    LET rd == IF fd >= 3 THEN ReadLoop(pipes[PipeAt(fd)], <<>>, n, 0)
              ELSE [q |-> ZeroPipe, i |-> 0, x |-> <<>>]
    IN  [q |-> rd.q,
         x |-> rd.x,
         r |-> IF fd < 0 THEN -1
               ELSE IF fd = 0 THEN 0
               ELSE IF fd = 1 THEN 0
               ELSE IF fd = 2 THEN -1
               ELSE rd.i]

ReadCall(fd, n) ==
    /\ Booted /\ ~fault /\ calls < MaxCalls
    /\ calls' = calls + 1
    /\ fd >= 3 => Dereferenceable(fd)
    /\ LET rd == ReadSwitch(fd, n)
       IN  /\ pipes' = IF fd >= 3 THEN [pipes EXCEPT ![PipeAt(fd)] = rd.q] ELSE pipes
           /\ delivered' = IF fd >= 3
                           THEN [delivered EXCEPT ![PipeAt(fd)] = @ \o rd.x]
                           ELSE delivered
           /\ ctx' = [ctx EXCEPT !.gpr[0] = rd.r]
    /\ UNCHANGED <<currentProcesses, time, procTab, openFileTab, executing, heap,
                   fault, written>>

Read == \E fd \in -1 .. (MAX_FDS - 1), n \in -1 .. MaxLen : ReadCall(fd, n)

(***************************************************************************)
(* Between two traps the executing user program changes its registers.     *)
(***************************************************************************)
UserRegs ==
    {[g |-> 0, lr |-> 0, pc |-> MainConsole], [g |-> 7, lr |-> 12, pc |-> MainConsole + 4]}

UserRun ==
    /\ Booted /\ ~fault
    /\ UNCHANGED calls
    /\ \E r \in UserRegs, d \in {0, 8} :
        /\ ctx' = [ctx EXCEPT !.gpr[1] = r.g, !.lr = r.lr, !.pc = r.pc,
                              !.sp = procTab[executing].tos - d]
        /\ ctx' # ctx
    /\ UNCHANGED <<currentProcesses, time, procTab, openFileTab, executing, heap, fault>>
    /\ UNCHANGED_PIPES

(***************************************************************************)
(* Specifications.                                                         *)
(*   Spec      processes and descriptors: every call that changes the      *)
(*             process table, the open-file table or the heap.             *)
(*   SpecSched the scheduler with niceness, without descriptors.           *)
(*   SpecNice  the writers of niceness: reset, fork and nice.              *)
(*   SpecPipe  one pipe, written and read.                                 *)
(*   SpecCtx   the register contexts across fork and dispatch.             *)
(***************************************************************************)
Next == Reset \/ Yield \/ Pipe \/ Close \/ Fork \/ Exit \/ Kill

Spec == Init /\ [][Next]_vars

NextSched == Reset \/ Yield \/ Irq \/ Fork \/ Exit \/ Kill \/ Nice

SpecSched == Init /\ [][NextSched]_vars

NextNice == Reset \/ Yield \/ Fork \/ Nice

SpecNice == Init /\ [][NextNice]_vars

NoPipeYet == \A a \in Addrs : heap[a] = -1

FirstPipe == NoPipeYet /\ Pipe

NextPipe == Reset \/ FirstPipe \/ Write \/ Read

SpecPipe == Init /\ [][NextPipe]_vars

NextCtx == Reset \/ UserRun \/ Fork \/ Exec \/ Yield \/ Exit

SpecCtx == Init /\ [][NextCtx]_vars

(***************************************************************************)
(* Longer runs of fewer kinds of call: the same handlers, up to MaxDeep    *)
(* traps.                                                                  *)
(*   SpecShare descriptors shared across fork, closed and reopened.        *)
(*   SpecPing  processes of chosen niceness taking turns.                  *)
(***************************************************************************)
DeepYield == Handles(MaxDeep) /\ YieldHandler

DeepIrq == Handles(MaxDeep) /\ IrqHandler

DeepPipe == Handles(MaxDeep) /\ PipeHandler

DeepClose == Handles(MaxDeep) /\ CloseHandler

DeepFork == Handles(MaxDeep) /\ ForkHandler

DeepExit == Handles(MaxDeep) /\ ExitHandler

NextShare == Reset \/ DeepPipe \/ DeepClose \/ DeepFork \/ DeepYield

SpecShare == Init /\ [][NextShare]_vars

\* the niceness values asked for in SpecPing
PingArgs == {-19, 1, 2}

DeepNice == \E pid \in Procs, x \in PingArgs : Handles(MaxDeep) /\ NiceHandler(pid, x)

NextPing == Reset \/ DeepNice \/ DeepFork \/ DeepYield \/ DeepIrq \/ DeepExit

SpecPing == Init /\ [][NextPing]_vars

\* every scheduling trap, with the niceness values of PingArgs
SwitchNice == \E pid \in Procs, x \in PingArgs : NiceCall(pid, x)

NextSwitch == Reset \/ Yield \/ Irq \/ Fork \/ Exit \/ Kill \/ SwitchNice

SpecSwitch == Init /\ [][NextSwitch]_vars

(***************************************************************************)
(* Vocabulary of the properties.                                           *)
(***************************************************************************)
PipeFiles == 3 .. (MAX_FDS - 1)

\* a block that malloc handed out and that free has not been called on
Live(p) == p # NULL /\ heap[p] = 0

\* the process-table slots that describe a process (INVALID slots carry no
\* meaningful fields)
Valid == {i \in Procs : procTab[i].status # "INVALID"}

\* the descriptor slots, over all processes, that hold the open file i
Holders(i) == {<<p, j>> \in Valid \X Fds : procTab[p].fdTab[j] = i}

\* the open-file entries of the pipe stored at p
EntriesOf(p) == {i \in PipeFiles : openFileTab[i].file = p}

(***************************************************************************)
(* C1: every open-file entry at an index >= 3 with ref_count > 0 refers to *)
(* a pipe buffer that has not been freed: closing one end of a pipe does   *)
(* not free the shared buffer while the entry of the other end still has   *)
(* ref_count > 0.                                                          *)
(***************************************************************************)
C1_OpenEntryHasLivePipe ==
    \A i \in PipeFiles : openFileTab[i].refCount > 0 => Live(openFileTab[i].file)

(***************************************************************************)
(* C2: once no process holds either descriptor of a pipe that pipe()       *)
(* created, the buffer of the pipe has been freed exactly once and both of *)
(* its open-file slots have ref_count 0.                                   *)
(***************************************************************************)
C2_PipeFreedExactlyOnce ==
    \A p \in Addrs :
        (/\ heap[p] >= 0
         /\ Cardinality(EntriesOf(p)) = 2
         /\ \A i \in EntriesOf(p) : Holders(i) = {})
        => /\ heap[p] = 1
           /\ \A i \in EntriesOf(p) : openFileTab[i].refCount = 0

(***************************************************************************)
(* C3: after reset, for every open-file index i, ref_count(i) is the       *)
(* number of descriptor slots over all processes that hold i, plus 1 for   *)
(* the three standard streams; ref_count is never negative.                *)
(***************************************************************************)
C3_RefCountCountsHolders ==
    Booted =>
        \A i \in Fds :
            /\ openFileTab[i].refCount
                   = Cardinality(Holders(i)) + (IF i < 3 THEN 1 ELSE 0)
            /\ openFileTab[i].refCount >= 0

(***************************************************************************)
(* Pipes as queues.  The bytes a pipe holds are those that write accepted  *)
(* and read has not delivered yet; Contents reads them out of the circular *)
(* buffer, oldest first.                                                   *)
(***************************************************************************)
Min(a, b) == IF a < b THEN a ELSE b

Pending(p) == Len(written[p]) - Len(delivered[p])

IsPrefix(s, t) == Len(s) <= Len(t) /\ SubSeq(t, 1, Len(s)) = s

Contents(p) ==
    [k \in 1 .. Pending(p) |-> pipes[p].buffer[(pipes[p].front + k - 1) % pipes[p].size]]

(***************************************************************************)
(* C4: a pipe is a FIFO byte queue: at every point the bytes delivered by  *)
(* reads are a prefix of the bytes accepted by writes, and the bytes       *)
(* accepted but not yet delivered are the ones the buffer holds, in order, *)
(* so that a later read returns exactly them.                              *)
(***************************************************************************)
C4_PipeIsFifo ==
    \A p \in Addrs :
        Live(p) => /\ IsPrefix(delivered[p], written[p])
                   /\ Pending(p) <= pipes[p].size
                   /\ written[p] = delivered[p] \o Contents(p)

\* a pipe whose buffer has wrapped around and has delivered both byte values
C4_Witness ==
    \E p \in Addrs :
        /\ Live(p)
        /\ Len(delivered[p]) > PIPE_SIZE
        /\ \E a, b \in 1 .. Len(delivered[p]) : delivered[p][a] # delivered[p][b]

(***************************************************************************)
(* C5: pipe I/O is non-blocking with exact partial counts: on a pipe of    *)
(* capacity C holding m bytes, write of n >= 0 bytes returns min(n, C - m) *)
(* and read of n >= 0 bytes returns min(n, m); full is true exactly when   *)
(* the pipe holds C bytes.                                                 *)
(***************************************************************************)
C5_ExactPartialCounts ==
    \A fd \in PipeFiles :
        Dereferenceable(fd) =>
            LET p == PipeAt(fd)
                C == pipes[p].size
                m == Pending(p)
            IN  /\ pipes[p].full <=> m = C
                /\ \A n \in 0 .. MaxLen :
                       /\ ReadSwitch(fd, n).r = Min(n, m)
                       /\ \A x \in Buffers(n) : WriteSwitch(fd, n, x).r = Min(n, C - m)

\* a full pipe has refused a write (returned 0) after an earlier read
C5_Witness ==
    \E p \in Addrs :
        /\ Live(p)
        /\ pipes[p].full
        /\ Len(delivered[p]) > 0
        /\ ctx.gpr[0] = 0

(***************************************************************************)
(* Processes.                                                              *)
(***************************************************************************)
Executing == {i \in Procs : procTab[i].status = "EXECUTING"}

Runnable == {i \in Procs : procTab[i].status \in {"READY", "EXECUTING"}}

\* time is incremented by schedule and by nothing else
ScheduleReturns == time' # time

OneExecuting == Executing = {executing}

(***************************************************************************)
(* C6: at the return of every call of schedule (timer interrupt, yield or  *)
(* exit) exactly one PCB has status EXECUTING, and it is the PCB that      *)
(* executing points to.                                                    *)
(***************************************************************************)
C6_OneExecutingAfterSchedule == [][ScheduleReturns => OneExecuting']_vars

\* the scheduler has switched to a forked process while another is READY
C6_Witness ==
    /\ time > 0
    /\ executing \in Procs \ {0}
    /\ OneExecuting
    /\ \E i \in Procs : procTab[i].status = "READY"

(***************************************************************************)
(* C7: after reset, current_processes is the number of PCBs whose status   *)
(* is READY or EXECUTING.                                                  *)
(***************************************************************************)
C7_CountsRunnable == Booted => currentProcesses = Cardinality(Runnable)

(***************************************************************************)
(* C8: immediately after the reset handler returns, exactly one PCB has    *)
(* status EXECUTING, it is pid 0, and every other PCB is INVALID.         *)
(***************************************************************************)
AfterReset == Booted /\ calls = 1

C8_ConsoleExecutingAfterReset ==
    AfterReset =>
        /\ Executing = {0}
        /\ procTab[0].pid = 0
        /\ \A i \in Procs \ {0} : procTab[i].status = "INVALID"

(***************************************************************************)
(* C9: a process that calls exit never resumes: the context restored at    *)
(* the return of exit belongs to another process, and schedule never       *)
(* dispatches a PCB that is TERMINATED.                                    *)
(***************************************************************************)
ExitSwitchesAway == Exit => executing' # executing

NoTerminatedDispatched ==
    ScheduleReturns => procTab[executing'].status # "TERMINATED"

C9_ExitNeverResumes == [][ExitSwitchesAway /\ NoTerminatedDispatched]_vars

(***************************************************************************)
(* C10: after a successful fork the registers saved for the child are      *)
(* those the parent resumes with, in every register except gpr[0]: the     *)
(* parent gets the pid of the child, which is its slot index, the child    *)
(* gets 0.                                                                 *)
(***************************************************************************)
ForkSucceeds == currentProcesses < MAX_PROCS /\ ForkSlot \in Procs /\ Fork

SameUpperRegisters(a, b) ==
    /\ \A r \in 1 .. (NGPR - 1) : a.gpr[r] = b.gpr[r]
    /\ a.lr = b.lr
    /\ a.pc = b.pc
    /\ a.cpsr = b.cpsr

ForkReturnValues ==
    /\ ctx'.gpr[0] = ForkSlot
    /\ procTab'[ForkSlot].pid = ForkSlot
    /\ procTab'[ForkSlot].ctx.gpr[0] = 0

C10_ChildRegistersIdentical ==
    [][ForkSucceeds =>
          /\ SameUpperRegisters(procTab'[ForkSlot].ctx, ctx')
          /\ procTab'[ForkSlot].ctx.sp = ctx'.sp
          /\ ForkReturnValues]_vars

(***************************************************************************)
(* C10, amended: the same in every register except gpr[0] and sp; the sp   *)
(* of the child is not that of the parent but lies in the stack of the     *)
(* child, as far below its top as the saved sp of the calling PCB lies     *)
(* below the top of the stack of the caller.                               *)
(***************************************************************************)
C10_ChildRegistersExceptSp ==
    [][ForkSucceeds =>
          /\ SameUpperRegisters(procTab'[ForkSlot].ctx, ctx')
          /\ procTab'[ForkSlot].ctx.sp
                 = procTab'[ForkSlot].tos
                   - (procTab'[executing].tos - procTab'[executing].ctx.sp)
          /\ ForkReturnValues]_vars

\* a child forked by a parent whose registers the user program had changed
C10_Witness ==
    \E i \in Procs \ {0} :
        /\ procTab[i].status = "READY"
        /\ procTab[i].lastExec = time
        /\ procTab[i].ctx.gpr[0] = 0
        /\ procTab[i].ctx.gpr[1] = 7
        /\ ctx.gpr[0] = i
        /\ ctx.gpr[1] = 7
        /\ ctx.sp # procTab[i].ctx.sp

(***************************************************************************)
(* C11: terminating a live process by exit or by kill(pid, x) reclaims its *)
(* descriptors at once: afterwards every slot of the descriptor table of   *)
(* the target is -1, the ref_count of each open-file entry the target held *)
(* is lower by exactly one, the status of the target is TERMINATED,        *)
(* current_processes is lower by exactly one and the descriptor tables of  *)
(* all other processes are unchanged; kill returns 0.                      *)
(***************************************************************************)
Alive(pid) == procTab[pid].status \in {"READY", "EXECUTING"}

\* the open-file entries that the descriptor table of pid refers to
HeldBy(pid) == {procTab[pid].fdTab[j] : j \in Fds} \cap Fds

Reclaimed(pid) ==
    /\ \A j \in Fds : procTab'[pid].fdTab[j] = -1
    /\ \A i \in HeldBy(pid) : openFileTab'[i].refCount = openFileTab[i].refCount - 1
    /\ procTab'[pid].status = "TERMINATED"
    /\ currentProcesses' = currentProcesses - 1
    /\ \A q \in Procs \ {pid} : procTab'[q].fdTab = procTab[q].fdTab

KillReclaims ==
    \A pid \in Procs :
        (Alive(pid) /\ KillCall(pid, 0)) => (Reclaimed(pid) /\ ctx'.gpr[0] = 0)

ExitReclaims == (Booted /\ Alive(executing) /\ Exit) => Reclaimed(executing)

C11_TerminationReclaims == [][KillReclaims /\ ExitReclaims]_vars

(***************************************************************************)
(* C12: fork called with current_processes >= MAX_PROCS returns -1 in the  *)
(* gpr[0] of the caller and leaves the process table, the open-file table, *)
(* current_processes and executing unchanged.                              *)
(***************************************************************************)
C12_ForkFullTableFails ==
    [][(currentProcesses >= MAX_PROCS /\ Fork) =>
          /\ ctx'.gpr[0] = -1
          /\ UNCHANGED <<procTab, openFileTab, currentProcesses, executing>>]_vars

\* fork has been refused on a table in which every slot is in use
C12_Witness ==
    /\ currentProcesses >= MAX_PROCS
    /\ Cardinality(Runnable) = MAX_PROCS
    /\ ctx.gpr[0] = -1

(***************************************************************************)
(* C13: when pipe() cannot obtain two free open-file slots (fewer than two *)
(* slots with ref_count 0 among the indices >= 3) it returns -1, and       *)
(* afterwards every ref_count and every slot of the descriptor table of    *)
(* the caller has the value it had before the call.                        *)
(***************************************************************************)
FreeFiles == {i \in PipeFiles : openFileTab[i].refCount = 0}

C13_FailedPipeRestores ==
    [][(Handles(MaxDeep) /\ Cardinality(FreeFiles) < 2 /\ PipeHandler) =>
          /\ ctx'.gpr[0] = -1
          /\ \A i \in Fds : openFileTab'[i].refCount = openFileTab[i].refCount
          /\ procTab'[executing].fdTab = procTab[executing].fdTab]_vars

(***************************************************************************)
(* C14: yield ping-pong: with exactly two live processes, the console      *)
(* pid 0 and a forked pid 1, of equal niceness, every invocation of the    *)
(* scheduler (by yield or by the timer tick) dispatches the process that   *)
(* was not executing.                                                      *)
(***************************************************************************)
TwoLive ==
    /\ Booted
    /\ Runnable = {0, 1}
    /\ executing \in {0, 1}
    /\ procTab[0].niceness = procTab[1].niceness

SchedulerInvoked == Handles(MaxDeep) /\ (YieldHandler \/ IrqHandler)

DispatchesOther == executing' \in {0, 1} \ {executing}

C14_PingPong == [][(TwoLive /\ SchedulerInvoked) => DispatchesOther]_vars

(***************************************************************************)
(* C15: nice(pid, x) stores x clamped to [-19, +20] into the niceness of   *)
(* the target PCB and returns the clamped value; in every reachable state  *)
(* every PCB has a niceness in [-19, +20]; nice with the same x a second   *)
(* time leaves the niceness that the first call left.                      *)
(***************************************************************************)
Max(a, b) == IF a > b THEN a ELSE b

NiceStoresClamped ==
    \A pid \in Procs, x \in NiceArgs :
        LET c == Max(-19, Min(20, x))
            once == nice(procTab, pid, x)
            twice == nice(once.pt, pid, x)
        IN  /\ once.pt[pid].niceness = c
            /\ once.r = c
            /\ twice.pt = once.pt

NicenessInRange == \A i \in Procs : procTab[i].niceness \in -19 .. 20

C15_NiceClamps == NicenessInRange /\ (Booted => NiceStoresClamped)

\* both limits have been stored, and the last call returned one of them
C15_Witness ==
    /\ \E p, q \in Procs : procTab[p].niceness = 20 /\ procTab[q].niceness = -19
    /\ ctx.gpr[0] \in {-19, 20}

(***************************************************************************)
(* C16: each dispatch emits [<prev>-><next>] in which each side is a       *)
(* two-digit decimal pid, or ? for a null side; the first characters       *)
(* emitted after reset with only the console are exactly R[?->00].         *)
(***************************************************************************)
TwoDigits(pid) == <<Digit(pid \div 10), Digit(pid % 10)>>

ResetEmitsBootTrace == Reset => ResetOut = <<"R", "[", "?", "-", ">", "0", "0", "]">>

DispatchEmitsTwoDigits ==
    ScheduleReturns =>
        dispatchOut(procTab, executing, executing')
            = <<"[">> \o TwoDigits(procTab[executing].pid) \o <<"-", ">">>
              \o TwoDigits(procTab[executing'].pid) \o <<"]">>

C16_TraceFormat == [][ResetEmitsBootTrace /\ DispatchEmitsTwoDigits]_vars

(***************************************************************************)
(* The scheduler as the claims describe it.  Seen is the process table as  *)
(* schedule finds it: exit has marked its caller TERMINATED before the     *)
(* call.  SignedScore is the aging score as a signed quantity.             *)
(***************************************************************************)
Seen ==
    IF currentProcesses' # currentProcesses
    THEN [procTab EXCEPT ![executing].status = "TERMINATED"]
    ELSE procTab

ReadySeen == {i \in Procs : Seen[i].status = "READY"}

SignedScore(i) == (time - procTab[i].lastExec) - procTab[i].niceness

Best == {i \in ReadySeen : \A j \in ReadySeen : SignedScore(i) >= SignedScore(j)}

Preempts == \E i \in ReadySeen : SignedScore(i) >= procTab[executing].niceness - 1

(***************************************************************************)
(* C17: on every invocation of the scheduler the process dispatched is the *)
(* READY PCB that maximizes the signed aging score, provided that maximum  *)
(* is >= executing.niceness - 1; otherwise the executing process           *)
(* continues.  A READY PCB with a negative score is not preferred over one *)
(* with a larger score.                                                    *)
(***************************************************************************)
C17_MaximizesSignedScore ==
    [][ScheduleReturns =>
          IF Preempts THEN executing' \in Best ELSE executing' = executing]_vars

(***************************************************************************)
(* C18: when two or more READY PCBs share the maximal aging score in one   *)
(* invocation of the scheduler, the one with the lowest index in the       *)
(* process table is dispatched.                                            *)
(***************************************************************************)
C18_TieToLowestIndex ==
    [][(ScheduleReturns /\ Preempts /\ Cardinality(Best) >= 2) =>
          \A i \in Best : executing' <= i]_vars

(***************************************************************************)
(* C19: fork preserves the stack height of the parent at the time of the   *)
(* trap: with h = executing.tos - ctx.sp, where ctx.sp is the stack        *)
(* pointer in the saved context of the trap, the saved sp of the child is  *)
(* child.tos - h.                                                          *)
(***************************************************************************)
C19_StackHeightAtTrap ==
    [][ForkSucceeds =>
          procTab'[ForkSlot].ctx.sp
              = procTab'[ForkSlot].tos - (procTab[executing].tos - ctx.sp)]_vars

(***************************************************************************)
(* C20: whenever the scheduler is invoked while exactly one PCB is READY,  *)
(* that PCB is the process dispatched, whatever the niceness and last_exec *)
(* of it and of the executing process.                                     *)
(***************************************************************************)
C20_SingleReadyDispatched ==
    [][(ScheduleReturns /\ Cardinality(ReadySeen) = 1) => executing' \in ReadySeen]_vars

(***************************************************************************)
(* C21: a successful fork never overwrites the PCB of a live process: the  *)
(* slot it zero-initializes has status INVALID or TERMINATED and is never  *)
(* the slot of the calling process, after any sequence of fork, exit and   *)
(* kill calls.                                                             *)
(***************************************************************************)
C21_ForkSlotIsFree ==
    [][ForkSucceeds =>
          /\ procTab[ForkSlot].status \in {"INVALID", "TERMINATED"}
          /\ ForkSlot # executing]_vars

(***************************************************************************)
(* C22: no pipe buffer leaks: in every reachable state every pipe buffer   *)
(* that pipe() has allocated and that has not been freed is referenced by  *)
(* at least one open-file entry with ref_count > 0.                        *)
(***************************************************************************)
C22_NoPipeLeak ==
    \A p \in Addrs :
        Live(p) => \E i \in PipeFiles : openFileTab[i].file = p /\ openFileTab[i].refCount > 0

(***************************************************************************)
(* The timer interrupt without a bound on the number of ticks.  schedule   *)
(* reads time and lastExec only through the difference time - lastExec     *)
(* (hilevel.c:116), so a state and the state with time and every lastExec  *)
(* moved by the same amount behave alike: after each tick Aged moves time  *)
(* back to 0, and lastExec[i] becomes minus the number of ticks PCB i has  *)
(* waited.  Waits are recorded up to MaxWait.  A tick is taken only where  *)
(* the recorded waits decide as the true ones do (Exact): at most one      *)
(* READY PCB has waited MaxWait ticks or more, and its recorded score is   *)
(* non-negative, passes the threshold of the executing process and exceeds *)
(* the score of every other READY PCB, as its true score then does too.    *)
(* Every behaviour of SpecAging is therefore a behaviour of the kernel (up *)
(* to the first 2^31 ticks a PCB waits).                                   *)
(***************************************************************************)
MaxWait == 4

Aged(pt, t) == [i \in Procs |-> [pt[i] EXCEPT !.lastExec = Max(@ - t, -MaxWait)]]

Ready(pt) == {i \in Procs : pt[i].status = "READY"}

Capped(pt) == {i \in Ready(pt) : pt[i].lastExec <= -MaxWait}

Exact(pt, t, ex) ==
    /\ Cardinality(Capped(pt)) <= 1
    /\ \A s \in Capped(pt) :
          /\ ipriority(pt, t, s) >= 0
          /\ ipriority(pt, t, s) >= pt[ex].niceness - 1
          /\ \A j \in Ready(pt) \ {s} : ipriority(pt, t, j) < ipriority(pt, t, s)

AgedIrqHandler ==
    /\ Exact(procTab, time, executing)
    /\ \E n \in NextIndexes(procTab, time, executing) :
          LET s == scheduleTo(procTab, ctx, time, executing, n)
          IN  /\ procTab' = Aged(s.pt, s.time)
              /\ ctx' = s.ctx
              /\ executing' = s.executing
              /\ time' = 0
    /\ UNCHANGED <<currentProcesses, openFileTab, heap, fault, calls>>
    /\ UNCHANGED_PIPES

AgedIrq == Booted /\ ~fault /\ AgedIrqHandler

\* the traps that set the processes up, at most MaxSetup of them
MaxSetup == 4

AgingArgs == {-19, 2}

SetupFork == Handles(MaxSetup) /\ ForkHandler

SetupNice == \E pid \in Procs, x \in AgingArgs : Handles(MaxSetup) /\ NiceHandler(pid, x)

NextAging == Reset \/ SetupFork \/ SetupNice \/ AgedIrq

\* the timer keeps interrupting: a tick that can be taken is taken
SpecAging == Init /\ [][NextAging]_vars /\ WF_vars(AgedIrq)

Waiting(i) == procTab[i].status = "READY" /\ executing # i

Served(i) == executing = i \/ procTab[i].status \in {"TERMINATED", "INVALID"}

(***************************************************************************)
(* C23: aging prevents starvation: if the scheduler is invoked infinitely  *)
(* often, every PCB that is READY and is not killed is eventually          *)
(* dispatched, whatever the niceness values of the live processes are.     *)
(***************************************************************************)
C23_NoStarvation ==
    ([]<><<AgedIrq>>_vars) => \A i \in Procs : (Waiting(i) ~> Served(i))

============================================================================
